---- MODULE Spec2Model ----
(***************************************************************************)
(* A model of three parts of nupic.research:                               *)
(*   - MNISTSparseExperiment (projects/whydense/mnist): construction of    *)
(*     the network, optimizer and learning-rate scheduler from a           *)
(*     configuration mapping, train(epoch) and runNoiseTests();            *)
(*   - the Greedy InfoMax loss family (greedy_infomax/utils/loss_utils);   *)
(*   - the ProfileAutograd mixin (pytorch/imagenet/mixins).                *)
(* Python objects are records with a "kind" field; None is the record      *)
(* None.  A call that raises yields a record of kind "raise".  Calls into  *)
(* torch and nupic.torch are recorded in event logs, in call order.        *)
(***************************************************************************)
EXTENDS Integers, Sequences, FiniteSets, TLC

VARIABLES
  config,        \* the configuration mapping handed to __init__
  pc,            \* "new", "constructed" or "failed"
  exc,           \* the exception that ended the last operation, or "none"
  ctorLog,       \* the stages __init__ went through, in order
  first_loader,  \* self.first_loader
  train_loader,  \* self.train_loader
  test_loader,   \* self.test_loader
  optimizer,     \* self.optimizer
  lr_scheduler,  \* self.lr_scheduler
  model,         \* self.model: counters of what was applied to it
  events,        \* the external calls made by train(), in order
  calls,         \* number of train() calls made
  lastTrain,     \* the last train() call: its epoch and how it ended
  noiseIdx,      \* runNoiseTests(): 0 when not running, else the iteration that is next
  noiseLocal,    \* runNoiseTests(): the local ret
  testCalls,     \* the test() calls of the last runNoiseTests(), in order
  noiseRet       \* what the last runNoiseTests() returned

drvVars == <<config, pc, exc, ctorLog, first_loader, train_loader, test_loader,
             optimizer, lr_scheduler, model, events, calls, lastTrain>>

noiseVars == <<noiseIdx, noiseLocal, testCalls, noiseRet>>

\* the network builder of __init__ (lines 169-225)
VARIABLES
  bldConfig,     \* the configuration keys the builder reads
  network        \* what was built: the modules of the nn.Sequential, in order

bldVars == <<bldConfig, network>>

\* the ProfileAutograd mixin
VARIABLES
  rank,          \* self.rank
  attrs,         \* the attributes "profile" and "profile_autograd" of self
  setupDone,     \* setup_experiment has run
  epochLog       \* one entry per train_epoch call

profVars == <<rank, attrs, setupDone, epochLog>>

\* the loss functions of loss_utils
VARIABLES
  lossIn,        \* the arguments: data_lists, targets, reduction, module
  lossOut        \* the loss function called last and what it returned

lossVars == <<lossIn, lossOut>>

vars == <<drvVars, noiseVars, bldVars, profVars, lossVars>>

----------------------------------------------------------------------------
(* Python values *)

None == [kind |-> "None"]

PyStrVal(s) == [kind |-> "str", s |-> s]

PyInt(n) == [kind |-> "int", v |-> n]

\* a float with one decimal digit, held in tenths
PyFloat(t) == [kind |-> "float", tenths |-> t]

Raise(e) == [kind |-> "raise", exc |-> e]

----------------------------------------------------------------------------
(* str() of a number and eval() of a dictionary literal *)

DigitChars == <<"0", "1", "2", "3", "4", "5", "6", "7", "8", "9">>

DigitVal(c) == CHOOSE d \in 0..9 : DigitChars[d + 1] = c

RECURSIVE StrInt(_)
StrInt(n) == IF n < 10 THEN <<DigitChars[n + 1]>>
             ELSE StrInt(n \div 10) \o <<DigitChars[(n % 10) + 1]>>

\* str(x): "1" for the int 1, "0.5" for the float 0.5, "1.0" for the float 1.0
PyStr(x) == IF x.kind = "int" THEN StrInt(x.v)
            ELSE StrInt(x.tenths \div 10) \o <<".">> \o <<DigitChars[(x.tenths % 10) + 1]>>

RECURSIVE ParseInt(_)
ParseInt(cs) == IF Len(cs) = 1 THEN DigitVal(cs[1])
                ELSE 10 * ParseInt(SubSeq(cs, 1, Len(cs) - 1)) + DigitVal(cs[Len(cs)])

\* eval() of a number literal
EvalNumber(cs) ==
  IF \E i \in 1..Len(cs) : cs[i] = "."
  THEN LET dot == CHOOSE i \in 1..Len(cs) : cs[i] = "."
       IN  PyFloat(10 * ParseInt(SubSeq(cs, 1, dot - 1)) + ParseInt(SubSeq(cs, dot + 1, Len(cs))))
  ELSE PyInt(ParseInt(cs))

\* the tokens of a source string
Punct(s) == [t |-> "punct", s |-> s]

Key(s) == [t |-> "key", s |-> s]

Num(cs) == [t |-> "num", cs |-> cs]

\* eval() of "{'k1': v1, 'k2': v2, ...}": the set of (key, value) items
EvalDict(toks) ==
  { [key |-> toks[4 * i - 2].s, value |-> EvalNumber(toks[4 * i].cs)] : i \in 1..(Len(toks) \div 4) }

DictGet(d, k) == (CHOOSE it \in d : it.key = k).value

DictKeys(d) == { it.key : it \in d }

----------------------------------------------------------------------------
(* The configuration mapping *)

MaxTrainCalls == 2

MaxEpoch == 2

OptimizerNames == {"SGD", "Adam", "RMSProp"}

\* the names torch.optim.lr_scheduler defines, as far as the model draws them
TorchSchedulers == {"StepLR", "ExponentialLR"}

SchedulerNames == {None, PyStrVal("StepLR"), PyStrVal("ExponentialLR"), PyStrVal("WarmupLR")}

\* "{'gamma': 0.9}" and "{'step_size': 2, 'gamma': 0.5}"
SuppliedParams ==
  { <<Punct("{"), Key("gamma"), Punct(":"), Num(<<"0", ".", "9">>), Punct("}")>>,
    <<Punct("{"), Key("step_size"), Punct(":"), Num(<<"2">>), Punct(","),
      Key("gamma"), Punct(":"), Num(<<"0", ".", "5">>), Punct("}")>> }

SchedulerParams == {None} \cup { [kind |-> "str", toks |-> p] : p \in SuppliedParams }

LearningRateFactors == {PyFloat(5), PyFloat(10), PyInt(1)}

Configs ==
  [ optimizer : OptimizerNames,
    lr_scheduler : SchedulerNames,
    lr_scheduler_params : SchedulerParams,
    learning_rate_factor : LearningRateFactors,
    validation_lt_1 : BOOLEAN,
    batch_size : {4},
    first_epoch_batch_size : {4, 8},
    test_batch_size : {16},
    batches_in_epoch : {2, 3},
    batches_in_first_epoch : {1, 2} ]

Epochs == (0 - 1) .. MaxEpoch

----------------------------------------------------------------------------
(* MNISTSparseExperiment._configureDataloaders *)

DataLoader(id, dataset, batch_size, sampler, shuffle) ==
  [kind |-> "DataLoader", id |-> id, dataset |-> dataset, batch_size |-> batch_size,
   sampler |-> sampler, shuffle |-> shuffle, noise |-> None]

ConfigureDataloaders(c) ==
  LET tl == IF c.validation_lt_1
            THEN DataLoader(1, "train", c.batch_size, "train_sampler", FALSE)
            ELSE DataLoader(1, "train", c.batch_size, "None", TRUE)
      vl == IF c.validation_lt_1
            THEN DataLoader(2, "train", c.batch_size, "validation_sampler", FALSE)
            ELSE None
      fl == IF c.first_epoch_batch_size # c.batch_size
            THEN DataLoader(4, "train", c.first_epoch_batch_size, "None", TRUE)
            ELSE tl
  IN  [train_loader |-> tl, validation_loader |-> vl,
       test_loader |-> DataLoader(3, "test", c.test_batch_size, "None", TRUE),
       first_loader |-> fl]

----------------------------------------------------------------------------
(* MNISTSparseExperiment._createOptimizer *)

CreateOptimizer_AnyName(name) ==
  IF name = "Adam" THEN [kind |-> "optimizer", clazz |-> "Adam"]
  ELSE [kind |-> "optimizer", clazz |-> "SGD"]

CreateOptimizer(name) ==
  IF name = "SGD" THEN [kind |-> "optimizer", clazz |-> "SGD"]
  ELSE IF name = "Adam" THEN [kind |-> "optimizer", clazz |-> "Adam"]
  ELSE Raise("LookupError")

----------------------------------------------------------------------------
(* MNISTSparseExperiment._createLearningRateScheduler *)

\* "{'step_size': 1, 'gamma':" + str(self.learning_rate_factor) + "}"
StepLRParams(lrf) ==
  [kind |-> "str",
   toks |-> <<Punct("{"), Key("step_size"), Punct(":"), Num(<<"1">>), Punct(","),
              Key("gamma"), Punct(":"), Num(PyStr(lrf)), Punct("}")>>]

\* the parameter string the scheduler is built from, or the ValueError
SelectSchedulerParams_KeepSupplied(name, supplied, lrf) ==
  IF name = "StepLR" /\ supplied = None THEN StepLRParams(lrf)
  ELSE IF supplied = None THEN Raise("ValueError")
  ELSE supplied

SelectSchedulerParams(name, supplied, lrf) ==
  IF name = "StepLR" THEN StepLRParams(lrf)
  ELSE IF supplied = None THEN Raise("ValueError")
  ELSE supplied

\* eval("torch.optim.lr_scheduler.{}".format(name))
LookupSchedulerClass(name) ==
  IF name \in TorchSchedulers THEN [kind |-> "class", name |-> name]
  ELSE Raise("AttributeError")

CreateLearningRateScheduler(name, opt, supplied, lrf) ==
  IF name = None THEN None
  ELSE LET params == SelectSchedulerParams(name.s, supplied, lrf)
           clazz == LookupSchedulerClass(name.s)
       IN  IF params.kind = "raise" THEN params
           ELSE IF clazz.kind = "raise" THEN clazz
           ELSE [kind |-> "scheduler", clazz |-> clazz.name, optimizer |-> opt,
                 kwargs |-> EvalDict(params.toks), steps |-> 0]

----------------------------------------------------------------------------
(* MNISTSparseExperiment.__init__ *)

NewModel == [kind |-> "model", trained |-> 0, boostUpdates |-> 0, rezeros |-> 0]

Construct ==
  /\ pc = "new"
  /\ LET dl == ConfigureDataloaders(config)
         opt == CreateOptimizer(config.optimizer)
         sch == IF opt.kind = "raise" THEN None
                ELSE CreateLearningRateScheduler(config.lr_scheduler, opt,
                       config.lr_scheduler_params, config.learning_rate_factor)
     IN  IF opt.kind = "raise"
         THEN /\ pc' = "failed"
              /\ exc' = opt.exc
              /\ ctorLog' = <<"_configureDataloaders", "model", "_createOptimizer">>
              /\ UNCHANGED <<first_loader, train_loader, test_loader, optimizer,
                             lr_scheduler, model>>
         ELSE IF sch.kind = "raise"
         THEN /\ pc' = "failed"
              /\ exc' = sch.exc
              /\ ctorLog' = <<"_configureDataloaders", "model", "_createOptimizer",
                              "_createLearningRateScheduler">>
              /\ UNCHANGED <<first_loader, train_loader, test_loader, optimizer,
                             lr_scheduler, model>>
         ELSE /\ pc' = "constructed"
              /\ exc' = "none"
              /\ ctorLog' = <<"_configureDataloaders", "model", "_createOptimizer",
                              "_createLearningRateScheduler">>
              /\ first_loader' = dl.first_loader
              /\ train_loader' = dl.train_loader
              /\ test_loader' = dl.test_loader
              /\ optimizer' = opt
              /\ lr_scheduler' = sch
              /\ model' = NewModel
  /\ UNCHANGED <<config, events, calls, lastTrain, noiseVars, bldVars, profVars, lossVars>>

----------------------------------------------------------------------------
(* MNISTSparseExperiment.train, preEpoch, postEpoch *)

Ev(op, call) == [op |-> op, call |-> call, loader |-> None, batches |-> 0]

TrainModelEv(call, loader, batches) ==
  [op |-> "trainModel", call |-> call, loader |-> loader, batches |-> batches]

SelectLoader_Mixed(epoch, fl, bfe, tl, be) ==
  IF epoch = 0 THEN <<fl, bfe>> ELSE <<tl, bfe>>

\* the (loader, batches_in_epoch) pair of lines 259-264
SelectLoader(epoch, fl, bfe, tl, be) ==
  IF epoch = 0 THEN <<fl, bfe>> ELSE <<tl, be>>

PreEpoch(call) == <<Ev("preEpoch", call)>>

PostEpoch(call) ==
  <<Ev("updateBoostStrength", call), Ev("rezeroWeights", call), Ev("lr_scheduler.step", call)>>

\* the learning rate not read: without a scheduler the call fails at
\* lr_scheduler.step of postEpoch
TrainEvents_FailsAtStep(call, epoch, sch, fl, bfe, tl, be) ==
  LET pair == SelectLoader(epoch, fl, bfe, tl, be)
  IN  PreEpoch(call) \o
      (IF sch = None
       THEN <<TrainModelEv(call, pair[1], pair[2]), Ev("updateBoostStrength", call),
              Ev("rezeroWeights", call)>>
       ELSE <<Ev("lr_scheduler.get_lr", call), TrainModelEv(call, pair[1], pair[2])>>
            \o PostEpoch(call))

\* what one train(epoch) call does, up to the AttributeError of reading
\* get_lr of a scheduler that is None
TrainEvents(call, epoch, sch, fl, bfe, tl, be) ==
  LET pair == SelectLoader(epoch, fl, bfe, tl, be)
  IN  PreEpoch(call) \o
      (IF sch = None THEN <<>>
       ELSE <<Ev("lr_scheduler.get_lr", call), TrainModelEv(call, pair[1], pair[2])>>
            \o PostEpoch(call))

Count(evs, op) == Cardinality({ i \in 1..Len(evs) : evs[i].op = op })

Train(epoch) ==
  /\ pc = "constructed"
  /\ calls < MaxTrainCalls
  /\ LET call == calls + 1
         evs == TrainEvents(call, epoch, lr_scheduler, first_loader,
                            config.batches_in_first_epoch, train_loader,
                            config.batches_in_epoch)
     IN  /\ calls' = call
         /\ events' = events \o evs
         /\ model' = [model EXCEPT !.trained = @ + Count(evs, "trainModel"),
                                   !.boostUpdates = @ + Count(evs, "updateBoostStrength"),
                                   !.rezeros = @ + Count(evs, "rezeroWeights")]
         /\ lr_scheduler' = IF lr_scheduler = None THEN None
                            ELSE [lr_scheduler EXCEPT !.steps = @ + Count(evs, "lr_scheduler.step")]
         /\ exc' = IF lr_scheduler = None THEN "AttributeError" ELSE "none"
         /\ lastTrain' = [epoch |-> epoch, call |-> call,
                          outcome |-> IF lr_scheduler = None THEN "raised" ELSE "returned"]
  /\ UNCHANGED <<config, pc, ctorLog, first_loader, train_loader, test_loader, optimizer,
                 noiseVars, bldVars, profVars, lossVars>>

----------------------------------------------------------------------------
(* MNISTSparseExperiment.test and runNoiseTests *)

MaxCorrect == 1

\* the noise magnitudes of line 347, in hundredths
NoiseLevels == <<0, 5, 10, 15, 20, 25, 30, 35, 40, 45, 50>>

\* what evaluateModel may return
EvalResults == { [total_correct |-> c] : c \in 0..MaxCorrect }

\* the entropy summed over the modules of self.model
Entropy(m) == m.boostUpdates

\* the loader built in one iteration of runNoiseTests: a new DataLoader over
\* the test set, transformed by RandomNoise(noise)
NoiseLoader(i, noise, batch_size) ==
  [kind |-> "DataLoader", id |-> 4 + i, dataset |-> "test", batch_size |-> batch_size,
   sampler |-> "None", shuffle |-> TRUE, noise |-> PyInt(noise)]

\* test(loader): the loader evaluated and the results it returns
Test(loader, dflt, evalResult, m) ==
  [loader |-> IF loader = None THEN dflt ELSE loader,
   results |-> [total_correct |-> evalResult.total_correct, entropy |-> Entropy(m)]]

DictSet(d, k, v) == [x \in (DOMAIN d) \cup {k} |-> IF x = k THEN v ELSE d[x]]

EmptyDict == [x \in {} |-> 0]

\* ret = {} and the first iteration is next (lines 343-347)
RunNoiseTestsEnter ==
  /\ pc = "constructed"
  /\ noiseIdx = 0
  /\ noiseIdx' = 1
  /\ noiseLocal' = EmptyDict
  /\ testCalls' = <<>>
  /\ noiseRet' = None
  /\ UNCHANGED <<drvVars, bldVars, profVars, lossVars>>

NoiseIteration_DefaultLoader(noise, evalResult) ==
  LET t == Test(None, test_loader, evalResult, model)
  IN  [call |-> [noise |-> noise, loader |-> t.loader, results |-> t.results],
       ret |-> DictSet(noiseLocal, noise, t.results)]

\* one iteration of the loop of lines 347-360
NoiseIteration(noise, evalResult) ==
  LET loader == NoiseLoader(noiseIdx, noise, config.test_batch_size)
      t == Test(loader, test_loader, evalResult, model)
  IN  [call |-> [noise |-> noise, loader |-> t.loader, results |-> t.results],
       ret |-> DictSet(noiseLocal, noise, t.results)]

RunNoiseTestsIterate ==
  /\ noiseIdx \in 1..Len(NoiseLevels)
  /\ \E evalResult \in EvalResults :
       LET r == NoiseIteration(NoiseLevels[noiseIdx], evalResult)
       IN  /\ testCalls' = Append(testCalls, r.call)
           /\ noiseLocal' = r.ret
  /\ noiseIdx' = noiseIdx + 1
  /\ UNCHANGED <<noiseRet, drvVars, bldVars, profVars, lossVars>>

\* return ret (line 362)
RunNoiseTestsReturn ==
  /\ noiseIdx = Len(NoiseLevels) + 1
  /\ noiseRet' = [kind |-> "dict", d |-> noiseLocal]
  /\ noiseIdx' = 0
  /\ UNCHANGED <<noiseLocal, testCalls, drvVars, bldVars, profVars, lossVars>>

----------------------------------------------------------------------------
(* add_cnn_layer, add_linear_layer and the model part of __init__ *)

MaxCnnLayers == 2

MaxLinearLayers == 2

\* a module of the network; what a field does not apply to is 0
Module(name, type, in_features, out_features) ==
  [name |-> name, type |-> type, in_features |-> in_features, out_features |-> out_features]

\* sparsities and percentages are held in tenths

\* the closed interval in its place: 0 <= x <= 1.0
InUnitInterval_Closed(x) == 0 <= x /\ x <= 10

InUnitInterval(x) == 0 < x /\ x < 10

\* nn.Module.add_module: registers m under its name; a name already registered
\* keeps its place and takes the new module
AddModule(net, m) ==
  IF \E i \in 1..Len(net) : net[i].name = m.name
  THEN [i \in 1..Len(net) |-> IF net[i].name = m.name THEN m ELSE net[i]]
  ELSE Append(net, m)

AddCnnLayer(net, suffix, in_channels, out_channels, use_batch_norm, weight_sparsity, percent_on) ==
  LET cnn == AddModule(net,
                 Module(<<"cnnSdr", suffix, "_cnn">>,
                        IF InUnitInterval(weight_sparsity) THEN "SparseWeights2d" ELSE "Conv2d",
                        in_channels, out_channels))
      bn == IF use_batch_norm
            THEN AddModule(cnn, Module(<<"cnnSdr", suffix, "_bn">>, "BatchNorm2d",
                                       out_channels, out_channels))
            ELSE cnn
      maxpool == AddModule(bn, Module(<<"cnnSdr", suffix, "_maxpool">>, "MaxPool2d", 0, 0))
  IN  IF InUnitInterval(percent_on)
      THEN AddModule(maxpool, Module(<<"cnnSdr", suffix, "_kwinner">>, "KWinners2d",
                                     out_channels, out_channels))
      ELSE AddModule(maxpool, Module(<<"cnnSdr", suffix, "_relu">>, "ReLU", 0, 0))

AddLinearLayer(net, suffix, input_size, linear_n, weight_sparsity, percent_on) ==
  LET linear == AddModule(net,
                    Module(<<"linear", suffix, "">>,
                           IF InUnitInterval(weight_sparsity) THEN "SparseWeights" ELSE "Linear",
                           input_size, linear_n))
  IN  IF InUnitInterval(percent_on)
      THEN AddModule(linear, Module(<<"linear", suffix, "_kwinners">>, "KWinners",
                                    linear_n, linear_n))
      ELSE AddModule(linear, Module(<<"linear", suffix, "_relu">>, "ReLU", 0, 0))

\* lines 204-206: the input shape of the next layer
NextInputShape(out_channels, input_shape) ==
  LET width == input_shape[3]
      wout == (width - 5) + 1
      maxpoolWidth == wout \div 2
  IN  <<out_channels, maxpoolWidth, maxpoolWidth>>

\* the loop of lines 188-206 from layer i on; shapes collects input_shape
RECURSIVE CnnLoop(_, _, _, _, _)
CnnLoop(i, c, net, input_shape, shapes) ==
  IF i > Len(c.cnn_out_channels)
  THEN [net |-> net, input_shape |-> input_shape, shapes |-> shapes]
  ELSE LET in_channels == input_shape[1]
           added == AddCnnLayer(net, i, in_channels, c.cnn_out_channels[i],
                                c.use_batch_norm, c.cnn_weight_sparsity, c.cnn_percent_on[i])
           next == NextInputShape(c.cnn_out_channels[i], input_shape)
       IN  CnnLoop(i + 1, c, added, next, Append(shapes, next))

\* the loop of lines 213-221 from layer i on
RECURSIVE LinearLoop(_, _, _, _)
LinearLoop(i, c, net, input_size) ==
  IF i > Len(c.linear_n) THEN [net |-> net, input_size |-> input_size]
  ELSE LinearLoop(i + 1, c,
                  AddLinearLayer(net, i, input_size, c.linear_n[i], c.weight_sparsity,
                                 c.linear_percent_on[i]),
                  c.linear_n[i])

\* lines 182-225
BuildModel(c) ==
  LET cnn == CnnLoop(1, c, <<>>, c.cnn_input_shape, <<c.cnn_input_shape>>)
      flat == AddModule(cnn.net, Module(<<"flatten", 0, "">>, "Flatten", 0, 0))
      input_size == cnn.input_shape[1] * cnn.input_shape[2] * cnn.input_shape[3]
      lin == LinearLoop(1, c, flat, input_size)
  IN  [kind |-> "Sequential",
       modules |-> AddModule(AddModule(lin.net,
                                       Module(<<"output", 0, "">>, "Linear", lin.input_size, 10)),
                             Module(<<"softmax", 0, "">>, "LogSoftmax", 0, 0)),
       input_shapes |-> cnn.shapes,
       flat_size |-> input_size]

\* the shape of the output of a module for an input of shape sh, as torch
\* computes it: a convolution of kernel 5, stride 1 and no padding, a max
\* pooling of kernel 2, a linear layer of in_features inputs
ModuleOutput(m, sh) ==
  IF sh.kind = "raise" THEN sh
  ELSE IF m.type \in {"Conv2d", "SparseWeights2d"}
  THEN IF sh.kind = "chw" /\ sh.c = m.in_features /\ sh.h >= 5 /\ sh.w >= 5
       THEN [kind |-> "chw", c |-> m.out_features, h |-> (sh.h - 5) + 1, w |-> (sh.w - 5) + 1]
       ELSE Raise("RuntimeError")
  ELSE IF m.type = "MaxPool2d"
  THEN IF sh.kind = "chw" /\ sh.h >= 2 /\ sh.w >= 2
       THEN [kind |-> "chw", c |-> sh.c, h |-> sh.h \div 2, w |-> sh.w \div 2]
       ELSE Raise("RuntimeError")
  ELSE IF m.type \in {"BatchNorm2d", "KWinners2d"}
  THEN IF sh.kind = "chw" /\ sh.c = m.in_features THEN sh ELSE Raise("RuntimeError")
  ELSE IF m.type = "Flatten"
  THEN IF sh.kind = "chw" THEN [kind |-> "flat", n |-> sh.c * sh.h * sh.w] ELSE sh
  ELSE IF m.type \in {"Linear", "SparseWeights"}
  THEN IF sh.kind = "flat" /\ sh.n = m.in_features
       THEN [kind |-> "flat", n |-> m.out_features]
       ELSE Raise("RuntimeError")
  ELSE IF m.type = "KWinners"
  THEN IF sh.kind = "flat" /\ sh.n = m.in_features THEN sh ELSE Raise("RuntimeError")
  ELSE sh

\* the shapes a sample of shape sh takes through the modules from i on
RECURSIVE Forward(_, _, _)
Forward(mods, i, sh) ==
  IF i > Len(mods) THEN <<>>
  ELSE LET out == ModuleOutput(mods[i], sh)
       IN  <<out>> \o Forward(mods, i + 1, out)

Channels == {2, 3}

Sides == {20, 28}

Fractions == {0 - 3, 0, 4, 10, 12}

ConstantList(n, x) == [i \in 1..n |-> x]

BuilderConfigs ==
  { [cnn_input_shape |-> <<1, h, w>>, cnn_out_channels |-> oc, linear_n |-> ConstantList(nl, 5),
     cnn_percent_on |-> ConstantList(Len(oc), cp), linear_percent_on |-> ConstantList(nl, lp),
     weight_sparsity |-> ws, cnn_weight_sparsity |-> cws, use_batch_norm |-> bn] :
    h \in Sides, w \in Sides,
    oc \in UNION { [1..n -> Channels] : n \in 0..MaxCnnLayers },
    nl \in 0..MaxLinearLayers,
    cp \in Fractions, lp \in Fractions, ws \in Fractions, cws \in Fractions,
    bn \in BOOLEAN }

BuildNetwork ==
  /\ network = None
  /\ network' = BuildModel(bldConfig)
  /\ UNCHANGED <<bldConfig, drvVars, noiseVars, profVars, lossVars>>

----------------------------------------------------------------------------
(* ProfileAutograd *)

MaxRank == 2

MaxProfiledEpochs == 4

Unset == [kind |-> "unset"]

PyBool(b) == [kind |-> "bool", v |-> b]

\* what the parent's setup_experiment may leave in self.profile
ParentProfile == {PyBool(TRUE), PyBool(FALSE)}

\* setup_experiment: the parent's setup, then line 29
SetupExperimentAttrs(a, parentProfile, r) ==
  [a EXCEPT !.profile = parentProfile, !.profile_autograd = PyBool(r = 0)]

SetupExperiment ==
  /\ ~setupDone
  /\ \E parentProfile \in ParentProfile :
       attrs' = SetupExperimentAttrs(attrs, parentProfile, rank)
  /\ setupDone' = TRUE
  /\ UNCHANGED <<rank, epochLog, drvVars, noiseVars, bldVars, lossVars>>

\* train_epoch: the attribute read by lines 33 and 36, the profiling region
\* around the parent's train_epoch, the table logged after it
TrainEpochEntry(a, epoch, use_cuda) ==
  IF a.profile = Unset
  THEN [epoch |-> epoch, exc |-> "AttributeError", enabled |-> FALSE, use_cuda |-> use_cuda,
        parentRuns |-> 0, insideRegion |-> FALSE, logged |-> FALSE]
  ELSE [epoch |-> epoch, exc |-> "none", enabled |-> a.profile.v, use_cuda |-> use_cuda,
        parentRuns |-> 1, insideRegion |-> TRUE, logged |-> a.profile.v]

TrainEpoch ==
  /\ setupDone
  /\ Len(epochLog) < MaxProfiledEpochs
  /\ \E use_cuda \in BOOLEAN :
       epochLog' = Append(epochLog, TrainEpochEntry(attrs, Len(epochLog), use_cuda))
  /\ UNCHANGED <<rank, attrs, setupDone, drvVars, noiseVars, bldVars, lossVars>>

----------------------------------------------------------------------------
(* Rational numbers <<n, d>> with d > 0, in lowest terms *)

RECURSIVE Gcd(_, _)
Gcd(a, b) == IF b = 0 THEN a ELSE Gcd(b, a % b)

Abs(x) == IF x < 0 THEN 0 - x ELSE x

Rat(n, d) == LET g == Gcd(Abs(n), d) IN <<n \div g, d \div g>>

RatOfInt(n) == <<n, 1>>

RatAdd(a, b) == Rat(a[1] * b[2] + b[1] * a[2], a[2] * b[2])

RatSub(a, b) == Rat(a[1] * b[2] - b[1] * a[2], a[2] * b[2])

RatDivInt(a, k) == Rat(a[1], a[2] * k)

RECURSIVE RatSum(_)
RatSum(rs) == IF rs = <<>> THEN RatOfInt(0) ELSE RatAdd(Head(rs), RatSum(Tail(rs)))

----------------------------------------------------------------------------
(* Tensors of torch: a shape and the values in row-major order *)

Tensor(shape, v) == [kind |-> "tensor", shape |-> shape, v |-> v]

\* torch.tensor(0.0) and other 0-dimensional tensors
Scalar(r) == Tensor(<<>>, <<r>>)

RECURSIVE Numel(_)
Numel(shape) == IF shape = <<>> THEN 1 ELSE Head(shape) * Numel(Tail(shape))

\* a + b with a 0-dimensional operand broadcast
AddT(a, b) ==
  IF a.kind = "raise" THEN a
  ELSE IF b.kind = "raise" THEN b
  ELSE IF a.shape = b.shape
  THEN Tensor(a.shape, [e \in 1..Len(a.v) |-> RatAdd(a.v[e], b.v[e])])
  ELSE IF a.shape = <<>>
  THEN Tensor(b.shape, [e \in 1..Len(b.v) |-> RatAdd(a.v[1], b.v[e])])
  ELSE IF b.shape = <<>>
  THEN Tensor(a.shape, [e \in 1..Len(a.v) |-> RatAdd(a.v[e], b.v[1])])
  ELSE Raise("RuntimeError")

\* a / k for a Python int k
DivT(a, k) ==
  IF a.kind = "raise" THEN a
  ELSE IF k = 0 THEN Raise("ZeroDivisionError")
  ELSE Tensor(a.shape, [e \in 1..Len(a.v) |-> RatDivInt(a.v[e], k)])

\* a.view(1)
View1(a) ==
  IF a.kind = "raise" THEN a
  ELSE IF Len(a.v) = 1 THEN Tensor(<<1>>, a.v)
  ELSE Raise("RuntimeError")

\* torch.cat([a, b]) of two 1-dimensional tensors
Cat(a, b) ==
  IF a.kind = "raise" THEN a
  ELSE IF b.kind = "raise" THEN b
  ELSE Tensor(<<Len(a.v) + Len(b.v)>>, a.v \o b.v)

\* a[i] of a 1-dimensional tensor, i counted from 1
GetItem(a, i) == IF a.kind = "raise" THEN a ELSE Scalar(a.v[i])

\* a[i] = b: b must have one element, in dimensions of size 1
SetItem(a, i, b) ==
  IF a.kind = "raise" THEN a
  ELSE IF b.kind = "raise" THEN b
  ELSE IF Len(b.v) = 1 THEN Tensor(a.shape, [a.v EXCEPT ![i] = b.v[1]])
  ELSE Raise("RuntimeError")

\* a.sum()
SumT(a) == IF a.kind = "raise" THEN a ELSE Scalar(RatSum(a.v))

\* a.mean()
MeanT(a) == IF a.kind = "raise" THEN a ELSE Scalar(RatDivInt(RatSum(a.v), Len(a.v)))

\* torch.zeros(shape, dtype=torch.long)
Zeros(shape) == [shape |-> shape, v |-> [e \in 1..Numel(shape) |-> 0]]

\* A prediction tensor log_fk of shape (b, classes, y, x) is held by position
\* (b, y, x): for each position the negative log-softmax of every class, the
\* logit of class 0 and the log-sum-exp of the logits of the other classes.
\* log(softmax(log_fk) + 1e-11) is held as the same negative log-softmax.
LogSoftmax(log_fk) == log_fk

\* F.nll_loss(log_softmax_fk, true_fk, reduction)
NllLoss(log_softmax_fk, true_fk, reduction) ==
  LET n == Len(log_softmax_fk.elems)
      per == [e \in 1..n |-> RatOfInt(log_softmax_fk.elems[e].nll[true_fk.v[e] + 1])]
  IN  IF reduction = "none" THEN Tensor(log_softmax_fk.shape, per)
      ELSE IF reduction = "sum" THEN Scalar(RatSum(per))
      ELSE IF reduction = "mean" THEN Scalar(RatDivInt(RatSum(per), n))
      ELSE Raise("ValueError")

\* F.cross_entropy(log_fk, true_fk, reduction)
CrossEntropy(log_fk, true_fk, reduction) == NllLoss(LogSoftmax(log_fk), true_fk, reduction)

Min(a, b) == IF a < b THEN a ELSE b

----------------------------------------------------------------------------
(* multiple_cross_entropy *)

RECURSIVE mce_horizons(_, _, _, _)
mce_horizons(log_f_list, k, reduction, total_loss) ==
  IF k > Len(log_f_list) THEN total_loss
  ELSE mce_horizons(log_f_list, k + 1, reduction,
         AddT(total_loss,
              CrossEntropy(log_f_list[k], Zeros(log_f_list[k].shape), reduction)))

RECURSIVE mce_modules(_, _, _, _)
mce_modules(log_f_module_list, i, reduction, total_loss) ==
  IF i > Len(log_f_module_list) THEN total_loss
  ELSE mce_modules(log_f_module_list, i + 1, reduction,
         mce_horizons(log_f_module_list[i], 1, reduction, total_loss))

multiple_cross_entropy_averaged(log_f_module_list, targets, reduction) ==
  LET RECURSIVE modules(_, _)
      modules(i, total_loss) ==
        IF i > Len(log_f_module_list) THEN total_loss
        ELSE modules(i + 1,
               AddT(total_loss,
                    DivT(mce_horizons(log_f_module_list[i], 1, reduction,
                                      Scalar(RatOfInt(0))),
                         Len(log_f_module_list[i]))))
  IN  modules(1, Scalar(RatOfInt(0)))

\* the targets argument taken as the class of every position
multiple_cross_entropy_supplied(log_f_module_list, targets, reduction) ==
  LET supplied(log_fk) == [shape |-> log_fk.shape,
                           v |-> [e \in 1..Len(log_fk.elems) |-> targets]]
      RECURSIVE horizons(_, _, _)
      horizons(log_f_list, k, total_loss) ==
        IF k > Len(log_f_list) THEN total_loss
        ELSE horizons(log_f_list, k + 1,
               AddT(total_loss,
                    CrossEntropy(log_f_list[k], supplied(log_f_list[k]), reduction)))
      RECURSIVE modules(_, _)
      modules(i, total_loss) ==
        IF i > Len(log_f_module_list) THEN total_loss
        ELSE modules(i + 1, horizons(log_f_module_list[i], 1, total_loss))
  IN  modules(1, Scalar(RatOfInt(0)))

multiple_cross_entropy(log_f_module_list, targets, reduction) ==
  mce_modules(log_f_module_list, 1, reduction, Scalar(RatOfInt(0)))

----------------------------------------------------------------------------
(* all_module_multiple_log_softmax *)

RECURSIVE amm_horizons(_, _, _, _)
amm_horizons(log_f_list, k, reduction, module_loss) ==
  IF k > Len(log_f_list) THEN module_loss
  ELSE amm_horizons(log_f_list, k + 1, reduction,
         AddT(module_loss,
              NllLoss(LogSoftmax(log_f_list[k]), Zeros(log_f_list[k].shape), reduction)))

RECURSIVE amm_modules(_, _, _, _)
amm_modules(log_f_module_list, i, reduction, module_losses) ==
  IF i > Len(log_f_module_list) THEN module_losses
  ELSE LET module_loss == DivT(amm_horizons(log_f_module_list[i], 1, reduction,
                                            Scalar(RatOfInt(0))),
                               Len(log_f_module_list[i]))
       IN  amm_modules(log_f_module_list, i + 1, reduction,
                       Cat(module_losses, View1(module_loss)))

\* module_loss carried from one module to the next
all_module_multiple_log_softmax_carried(log_f_module_list, targets, reduction) ==
  LET RECURSIVE modules(_, _, _)
      modules(i, carried, module_losses) ==
        IF i > Len(log_f_module_list) THEN module_losses
        ELSE LET module_loss == DivT(amm_horizons(log_f_module_list[i], 1, reduction, carried),
                                     Len(log_f_module_list[i]))
             IN  modules(i + 1, module_loss, Cat(module_losses, View1(module_loss)))
  IN  modules(1, Scalar(RatOfInt(0)), Tensor(<<0>>, <<>>))

all_module_multiple_log_softmax(log_f_module_list, targets, reduction) ==
  amm_modules(log_f_module_list, 1, reduction, Tensor(<<0>>, <<>>))

----------------------------------------------------------------------------
(* module_specific_log_softmax_nll_loss and multiple_log_softmax_nll_loss *)

\* the loop of lines 150-155 over zip(log_f_list, true_f_list)
RECURSIVE msl_horizons(_, _, _, _, _, _)
msl_horizons(log_f_list, true_f_list, k, i, reduction, total_loss) ==
  IF k > Min(Len(log_f_list), Len(true_f_list)) THEN total_loss
  ELSE msl_horizons(log_f_list, true_f_list, k + 1, i, reduction,
         SetItem(total_loss, i,
                 AddT(GetItem(total_loss, i),
                      NllLoss(LogSoftmax(log_f_list[k]), true_f_list[k], reduction))))

\* the loop of lines 146-156 over zip(log_f_module_list, true_f_module_list)
RECURSIVE msl_modules(_, _, _, _, _)
msl_modules(log_f_module_list, true_f_module_list, i, reduction, total_loss) ==
  IF i > Min(Len(log_f_module_list), Len(true_f_module_list)) THEN total_loss
  ELSE LET summed == msl_horizons(log_f_module_list[i], true_f_module_list[i], 1, i,
                                  reduction, total_loss)
           divided == SetItem(summed, i,
                              DivT(GetItem(summed, i), Len(log_f_module_list[i])))
       IN  msl_modules(log_f_module_list, true_f_module_list, i + 1, reduction, divided)

module_specific_log_softmax_nll_loss(data_lists, targets, reduction) ==
  LET log_f_module_list == data_lists[1]
      true_f_module_list == data_lists[2]
      n == Len(log_f_module_list)
  IN  msl_modules(log_f_module_list, true_f_module_list, 1, reduction,
                  Tensor(<<n>>, [i \in 1..n |-> RatOfInt(0)]))

\* the reduction argument passed on to module_specific_log_softmax_nll_loss
multiple_log_softmax_nll_loss_passed(data_lists, targets, reduction) ==
  SumT(module_specific_log_softmax_nll_loss(data_lists, targets, reduction))

\* line 133: the reduction argument is not passed on
multiple_log_softmax_nll_loss(data_lists, targets, reduction) ==
  SumT(module_specific_log_softmax_nll_loss(data_lists, targets, "mean"))

----------------------------------------------------------------------------
(* true_gim_loss *)

\* (numerator - denominator).mean() of lines 175-177
GimTerm(log_fk) ==
  LET n == Len(log_fk.elems)
      numerator == Tensor(log_fk.shape, [e \in 1..n |-> RatOfInt(log_fk.elems[e].logit0)])
      denominator == MeanT(Tensor(log_fk.shape,
                                  [e \in 1..n |-> RatOfInt(log_fk.elems[e].lse)]))
      diff == Tensor(log_fk.shape, [e \in 1..n |-> RatSub(numerator.v[e], denominator.v[1])])
  IN  MeanT(diff)

RECURSIVE gim_horizons(_, _, _, _)
gim_horizons(log_f_list, true_f_list, k, total_loss) ==
  IF k > Min(Len(log_f_list), Len(true_f_list)) THEN total_loss
  ELSE gim_horizons(log_f_list, true_f_list, k + 1, AddT(total_loss, GimTerm(log_f_list[k])))

RECURSIVE gim_modules(_, _, _, _)
gim_modules(log_f_module_list, true_f_module_list, i, total_loss) ==
  IF i > Min(Len(log_f_module_list), Len(true_f_module_list)) THEN total_loss
  ELSE gim_modules(log_f_module_list, true_f_module_list, i + 1,
                   gim_horizons(log_f_module_list[i], true_f_module_list[i], 1, total_loss))

true_gim_loss(data_lists, targets, reduction) ==
  gim_modules(data_lists[1], data_lists[2], 1, Scalar(RatOfInt(0)))

----------------------------------------------------------------------------
(* module_specific_cross_entropy *)

\* l[module] of Python, module counted from 0 or, when negative, from the end
Index(l, module) == IF module < 0 THEN l[Len(l) + module + 1] ELSE l[module + 1]

RECURSIVE msc_horizons(_, _, _, _, _)
msc_horizons(log_f_list, true_f_list, k, reduction, total_loss) ==
  IF k > Min(Len(log_f_list), Len(true_f_list)) THEN total_loss
  ELSE msc_horizons(log_f_list, true_f_list, k + 1, reduction,
         AddT(total_loss, CrossEntropy(log_f_list[k], true_f_list[k], reduction)))

module_specific_cross_entropy(data_lists, targets, reduction, module) ==
  msc_horizons(Index(data_lists[1], module), Index(data_lists[2], module), 1, reduction,
               Scalar(RatOfInt(0)))

----------------------------------------------------------------------------
(* The arguments the loss functions are called with *)

MaxModules == 2

MaxHorizons == 2

MaxBatch == 2

MaxSeed == 1

Reductions == {"mean", "sum", "none"}

\* the prediction of module m, horizon k at position e
GenElem(seed, m, k, e) ==
  [nll |-> <<1 + ((seed + m + 2 * k + 3 * e) % 4), 1 + ((2 * seed + 3 * m + k + e) % 3)>>,
   logit0 |-> (seed + 2 * m + k + e) % 3,
   lse |-> (seed + m + 2 * k + 2 * e) % 4]

GenPrediction(seed, m, k, b) ==
  [shape |-> <<b, 1, 1>>, elems |-> [e \in 1..b |-> GenElem(seed, m, k, e)]]

\* the target tensor of module m, horizon k: zeros, or a class per position
GenTarget(zero, m, k, b) ==
  [shape |-> <<b, 1, 1>>, v |-> [e \in 1..b |-> IF zero THEN 0 ELSE (m + k + e) % 2]]

LossInputs ==
  { [data_lists |-> << [m \in 1..Len(hs) |-> [k \in 1..hs[m] |-> GenPrediction(seed, m, k, b)]],
                       [m \in 1..Len(hs) |-> [k \in 1..hs[m] |-> GenTarget(zero, m, k, b)]] >>,
     targets |-> t, reduction |-> r, module |-> md] :
    hs \in UNION { [1..n -> 1..MaxHorizons] : n \in 1..MaxModules },
    seed \in 0..MaxSeed, b \in 1..MaxBatch, zero \in BOOLEAN,
    t \in {0, 1}, r \in Reductions, md \in {0 - 1, 0} }

LossFunctions ==
  {"multiple_cross_entropy", "all_module_multiple_log_softmax",
   "multiple_log_softmax_nll_loss", "module_specific_log_softmax_nll_loss",
   "true_gim_loss", "module_specific_cross_entropy"}

NotCalled == [f |-> "none", value |-> None]

Returned(f, value) ==
  /\ lossOut' = [f |-> f, value |-> value]
  /\ UNCHANGED <<lossIn, drvVars, noiseVars, bldVars, profVars>>

Call_multiple_cross_entropy ==
  Returned("multiple_cross_entropy",
           multiple_cross_entropy(lossIn.data_lists[1], lossIn.targets, lossIn.reduction))

Call_all_module_multiple_log_softmax ==
  Returned("all_module_multiple_log_softmax",
           all_module_multiple_log_softmax(lossIn.data_lists[1], lossIn.targets,
                                           lossIn.reduction))

Call_multiple_log_softmax_nll_loss ==
  Returned("multiple_log_softmax_nll_loss",
           multiple_log_softmax_nll_loss(lossIn.data_lists, lossIn.targets, lossIn.reduction))

Call_module_specific_log_softmax_nll_loss ==
  Returned("module_specific_log_softmax_nll_loss",
           module_specific_log_softmax_nll_loss(lossIn.data_lists, lossIn.targets,
                                                lossIn.reduction))

Call_true_gim_loss ==
  Returned("true_gim_loss",
           true_gim_loss(lossIn.data_lists, lossIn.targets, lossIn.reduction))

Call_module_specific_cross_entropy ==
  Returned("module_specific_cross_entropy",
           module_specific_cross_entropy(lossIn.data_lists, lossIn.targets, lossIn.reduction,
                                         lossIn.module))

----------------------------------------------------------------------------

InitRest ==
  /\ pc = "new"
  /\ exc = "none"
  /\ ctorLog = <<>>
  /\ first_loader = None
  /\ train_loader = None
  /\ test_loader = None
  /\ optimizer = None
  /\ lr_scheduler = None
  /\ model = None
  /\ events = <<>>
  /\ calls = 0
  /\ lastTrain = None
  /\ noiseIdx = 0
  /\ noiseLocal = EmptyDict
  /\ testCalls = <<>>
  /\ noiseRet = None

\* the builder and the mixin before they are used
InitBuilderIdle ==
  /\ bldConfig = None
  /\ network = None

InitProfileIdle ==
  /\ rank = 0
  /\ attrs = [profile |-> Unset, profile_autograd |-> Unset]
  /\ setupDone = FALSE
  /\ epochLog = <<>>

InitLossIdle ==
  /\ lossIn = None
  /\ lossOut = None

Init ==
  /\ config \in Configs
  /\ InitRest
  /\ InitBuilderIdle
  /\ InitProfileIdle
  /\ InitLossIdle

Next ==
  \/ Construct
  \/ \E epoch \in Epochs : Train(epoch)

Spec == Init /\ [][Next]_vars

\* the experiments runNoiseTests is run on
NoiseConfigs ==
  { c \in Configs : /\ c.optimizer = "SGD"
                    /\ c.lr_scheduler = PyStrVal("StepLR")
                    /\ c.lr_scheduler_params = None
                    /\ c.learning_rate_factor = PyFloat(5)
                    /\ c.validation_lt_1
                    /\ c.batches_in_epoch = 2
                    /\ c.batches_in_first_epoch = 1 }

InitNoise ==
  /\ config \in NoiseConfigs
  /\ InitRest
  /\ InitBuilderIdle
  /\ InitProfileIdle
  /\ InitLossIdle

NextNoise ==
  \/ Construct
  \/ RunNoiseTestsEnter
  \/ RunNoiseTestsIterate
  \/ RunNoiseTestsReturn

SpecNoise == InitNoise /\ [][NextNoise]_vars

\* the builder alone
IdleConfig == CHOOSE c \in NoiseConfigs : c.first_epoch_batch_size = 4

InitBuilder ==
  /\ config = IdleConfig
  /\ InitRest
  /\ bldConfig \in BuilderConfigs
  /\ network = None
  /\ InitProfileIdle
  /\ InitLossIdle

NextBuilder == BuildNetwork

SpecBuilder == InitBuilder /\ [][NextBuilder]_vars

\* the mixin alone
InitProfile ==
  /\ config = IdleConfig
  /\ InitRest
  /\ InitBuilderIdle
  /\ rank \in 0..MaxRank
  /\ attrs = [profile |-> Unset, profile_autograd |-> Unset]
  /\ setupDone = FALSE
  /\ epochLog = <<>>
  /\ InitLossIdle

NextProfile ==
  \/ SetupExperiment
  \/ TrainEpoch

SpecProfile == InitProfile /\ [][NextProfile]_vars

\* the loss functions alone
InitLoss ==
  /\ config = IdleConfig
  /\ InitRest
  /\ InitBuilderIdle
  /\ InitProfileIdle
  /\ lossIn \in LossInputs
  /\ lossOut = NotCalled

NextLoss ==
  \/ Call_multiple_cross_entropy
  \/ Call_all_module_multiple_log_softmax
  \/ Call_multiple_log_softmax_nll_loss
  \/ Call_module_specific_log_softmax_nll_loss
  \/ Call_true_gim_loss
  \/ Call_module_specific_cross_entropy

SpecLoss == InitLoss /\ [][NextLoss]_vars

----------------------------------------------------------------------------
(* Properties of the experiment driver *)

\* the operations train() call c made on the model, optimizer and scheduler
OpsOfCall(c) ==
  LET mine(e) == e.call = c /\ e.op # "lr_scheduler.get_lr"
      evs == SelectSeq(events, mine)
  IN  [i \in 1..Len(evs) |-> evs[i].op]

TrainSteps ==
  <<"preEpoch", "trainModel", "updateBoostStrength", "rezeroWeights", "lr_scheduler.step">>

SupportedOptimizers == {"SGD", "Adam"}

\* C1: every train(epoch) call on a constructed experiment runs preEpoch,
\* one trainModel pass, updateBoostStrength, rezeroWeights and one scheduler
\* step, in this order and each exactly once; after n calls the scheduler
\* has been stepped n times.
C1_EveryTrainCallRunsAllSteps ==
  /\ \A c \in 1..calls : OpsOfCall(c) = TrainSteps
  /\ calls > 0 => lr_scheduler # None /\ lr_scheduler.steps = calls

\* what C1 says, for the experiments constructed with a scheduler
TrainOrderWithScheduler ==
  (pc = "constructed" /\ config.lr_scheduler # None) =>
    /\ \A c \in 1..calls : OpsOfCall(c) = TrainSteps
    /\ lr_scheduler.steps = calls
    /\ model.trained = calls

\* C2: an optimizer name other than "SGD" and "Adam" ends construction with
\* a LookupError raised by _createOptimizer: no experiment exists, the
\* scheduler is never created and no training step, hook or scheduler step
\* runs; with "SGD" or "Adam" the optimizer is created and construction goes
\* on to the creation of the scheduler.
C2_UnsupportedOptimizerFailsConstruction ==
  /\ config.optimizer \notin SupportedOptimizers =>
       /\ pc # "constructed"
       /\ events = <<>> /\ calls = 0
       /\ optimizer = None /\ lr_scheduler = None
       /\ pc # "new" =>
            /\ pc = "failed" /\ exc = "LookupError"
            /\ ctorLog[Len(ctorLog)] = "_createOptimizer"
  /\ (config.optimizer \in SupportedOptimizers /\ pc # "new") =>
       /\ Len(ctorLog) = 4
       /\ ctorLog[3] = "_createOptimizer"
       /\ ctorLog[4] = "_createLearningRateScheduler"
       /\ exc # "LookupError"
       /\ pc = "constructed" =>
            optimizer = [kind |-> "optimizer", clazz |-> config.optimizer]

C2_Witness ==
  /\ config.optimizer = "RMSProp"
  /\ pc = "failed"
  /\ exc = "LookupError"

LastTrainModel ==
  LET mine(e) == e.call = lastTrain.call /\ e.op = "trainModel"
  IN  SelectSeq(events, mine)

\* C4: train(epoch) hands trainModel the pair (first_loader,
\* batches_in_first_epoch) when epoch is 0 and the pair (train_loader,
\* batches_in_epoch) for every other epoch, never a loader of one pair with
\* the batch count of the other.
C4_LoaderPairByEpoch ==
  (lastTrain # None /\ lastTrain.outcome = "returned") =>
    /\ Len(LastTrainModel) = 1
    /\ LET e == LastTrainModel[1]
           first == <<first_loader, config.batches_in_first_epoch>>
           steady == <<train_loader, config.batches_in_epoch>>
       IN  /\ lastTrain.epoch = 0 => <<e.loader, e.batches>> = first
           /\ lastTrain.epoch # 0 => <<e.loader, e.batches>> = steady
           /\ first # steady => (<<e.loader, e.batches>> = first <=> lastTrain.epoch = 0)

C4_Witness ==
  /\ lastTrain # None
  /\ lastTrain.outcome = "returned"
  /\ lastTrain.epoch = 0
  /\ lastTrain.call = 2
  /\ first_loader # train_loader
  /\ config.batches_in_first_epoch # config.batches_in_epoch
  /\ LastTrainModel[1].loader = first_loader

\* the events of train call c, in order
EventsOfCall(c) ==
  LET RECURSIVE from(_)
      from(i) == IF i > Len(events) THEN <<>>
                 ELSE IF events[i].call = c THEN <<events[i]>> \o from(i + 1)
                 ELSE from(i + 1)
  IN  from(1)

\* C14: with no lr_scheduler in the configuration the creation of the
\* scheduler raises nothing and leaves the scheduler None: construction
\* succeeds (it can fail only before, in _createOptimizer); every train(epoch)
\* call then raises AttributeError on reading the learning rate, after
\* preEpoch and before trainModel, so that no training pass, no boost-strength
\* update and no weight re-zeroing ever happens.
C14_NoSchedulerFailsEveryTrain ==
  config.lr_scheduler = None =>
    /\ pc # "new" =>
         IF config.optimizer \in SupportedOptimizers
         THEN /\ pc = "constructed"
              /\ Len(ctorLog) = 4
              /\ lr_scheduler = None
              /\ calls = 0 => exc = "none"
         ELSE pc = "failed" /\ ctorLog[Len(ctorLog)] = "_createOptimizer"
    /\ calls > 0 =>
         /\ exc = "AttributeError"
         /\ lastTrain.call = calls /\ lastTrain.outcome = "raised"
         /\ model.trained = 0 /\ model.boostUpdates = 0 /\ model.rezeros = 0
    /\ \A c \in 1..calls : EventsOfCall(c) = PreEpoch(c)
    /\ \A i \in 1..Len(events) : events[i].op = "preEpoch"

\* an experiment constructed without a scheduler whose two train calls have
\* both failed after preEpoch
C14_Witness ==
  /\ config.lr_scheduler = None
  /\ pc = "constructed"
  /\ lr_scheduler = None
  /\ calls = 2
  /\ exc = "AttributeError"
  /\ events = <<Ev("preEpoch", 1), Ev("preEpoch", 2)>>
  /\ model.trained = 0

----------------------------------------------------------------------------
(* Properties of runNoiseTests *)

ExpectedNoiseLevels == { 5 * k : k \in 0..10 }

\* C5: runNoiseTests() calls test once per noise magnitude, in the ascending
\* order 0.0, 0.05, ..., 0.5, each time with a newly built loader injecting
\* that magnitude, and returns a mapping with exactly 11 entries, keyed by
\* the magnitudes, the value of each key being the metrics returned by the
\* test call of that magnitude.
C5_NoiseTests ==
  /\ \A i \in 1..Len(testCalls) :
       /\ testCalls[i].noise = 5 * (i - 1)
       /\ testCalls[i].loader.noise = PyInt(5 * (i - 1))
       /\ testCalls[i].loader # test_loader
       /\ \A j \in 1..Len(testCalls) :
            j # i => testCalls[j].loader.id # testCalls[i].loader.id
  /\ noiseRet # None =>
       /\ Len(testCalls) = 11
       /\ DOMAIN noiseRet.d = ExpectedNoiseLevels
       /\ Cardinality(DOMAIN noiseRet.d) = 11
       /\ \A i \in 1..11 : noiseRet.d[5 * (i - 1)] = testCalls[i].results

C5_Witness ==
  /\ noiseRet # None
  /\ noiseRet.d[0].total_correct = 1
  /\ noiseRet.d[50].total_correct = 0
  /\ noiseRet.d[25].total_correct = 1

----------------------------------------------------------------------------
(* Properties of the profiling mixin *)

\* C6: after setup_experiment, every train_epoch call runs the parent's
\* train_epoch exactly once inside the profiling region, and the region is
\* enabled, and the table of operations logged, exactly when the rank is 0.
C6_ProfilesOnlyOnRankZero ==
  setupDone =>
    \A i \in 1..Len(epochLog) :
      /\ epochLog[i].parentRuns = 1
      /\ epochLog[i].insideRegion
      /\ epochLog[i].enabled <=> rank = 0
      /\ epochLog[i].logged <=> rank = 0

----------------------------------------------------------------------------
(* Properties of the network builder *)

ConvIndices(mods) == { i \in 1..Len(mods) : mods[i].type \in {"Conv2d", "SparseWeights2d"} }

LinearIndices(mods) == { i \in 1..Len(mods) : mods[i].type \in {"Linear", "SparseWeights"} }

InputShape(c) == [kind |-> "chw", c |-> c.cnn_input_shape[1], h |-> c.cnn_input_shape[2],
                  w |-> c.cnn_input_shape[3]]

\* C10: the input shape declared for the layer after convolution layer i of
\* input (c, h, w) is (cnn_out_channels[i], (w - 4) \div 2, (w - 4) \div 2);
\* the first linear layer takes the product of the last shape and each
\* later one the units of the layer before it; and these declared sizes are
\* the sizes the modules produce for a sample of shape cnn_input_shape.
C10_DimensionsChain ==
  network # None =>
    LET mods == network.modules
        shapes == network.input_shapes
        n == Len(bldConfig.cnn_out_channels)
        lins == LinearIndices(mods)
        first == CHOOSE i \in lins : \A j \in lins : i <= j
        out == Forward(mods, 1, InputShape(bldConfig))
    IN  /\ Len(shapes) = n + 1
        /\ \A i \in 1..n :
             shapes[i + 1] = <<bldConfig.cnn_out_channels[i],
                               (shapes[i][3] - 4) \div 2, (shapes[i][3] - 4) \div 2>>
        /\ mods[first].in_features = shapes[n + 1][1] * shapes[n + 1][2] * shapes[n + 1][3]
        /\ \A i \in lins : \A j \in lins :
             (i < j /\ ~\E k \in lins : i < k /\ k < j) =>
               mods[j].in_features = mods[i].out_features
        /\ \A i \in 1..Len(out) : out[i].kind # "raise"
        /\ out[Len(out)] = [kind |-> "flat", n |-> 10]

\* the places in mods of the modules of a layer: family is "cnnSdr" or "linear"
LayerModules(mods, family, suffix) ==
  { i \in 1..Len(mods) : mods[i].name[1] = family /\ mods[i].name[2] = suffix }

WeightTypes == {"Conv2d", "SparseWeights2d", "Linear", "SparseWeights"}

ActivationTypes == {"KWinners2d", "KWinners", "ReLU"}

\* a layer has one weight module, of type sparse if 0 < weight_sparsity < 1
\* and dense otherwise, and one activation module, of type kwinners if
\* 0 < percent_on < 1 and ReLU otherwise (the two in tenths)
LayerAsConfigured(mods, layer, weight_sparsity, percent_on, sparse, dense, kwinners) ==
  LET weights == { i \in layer : mods[i].type \in WeightTypes }
      activations == { i \in layer : mods[i].type \in ActivationTypes }
  IN  /\ Cardinality(weights) = 1
      /\ Cardinality(activations) = 1
      /\ \A i \in weights :
           mods[i].type = (IF 0 < weight_sparsity /\ weight_sparsity < 10 THEN sparse ELSE dense)
      /\ \A i \in activations :
           mods[i].type = (IF 0 < percent_on /\ percent_on < 10 THEN kwinners ELSE "ReLU")

\* C11: every layer added by add_cnn_layer or add_linear_layer has exactly
\* one weight module, which is the sparse-weights wrapper if and only if the
\* weight sparsity is strictly between 0 and 1 and the plain dense layer
\* otherwise, and exactly one activation module, which is the k-winners
\* module if and only if percent_on is strictly between 0 and 1 and a ReLU
\* otherwise; 0 and 1 themselves give the dense layer and the ReLU.
C11_SparseIffInsideUnitInterval ==
  network # None =>
    LET mods == network.modules
    IN  /\ \A i \in 1..Len(bldConfig.cnn_out_channels) :
             LayerAsConfigured(mods, LayerModules(mods, "cnnSdr", i),
                               bldConfig.cnn_weight_sparsity, bldConfig.cnn_percent_on[i],
                               "SparseWeights2d", "Conv2d", "KWinners2d")
        /\ \A i \in 1..Len(bldConfig.linear_n) :
             LayerAsConfigured(mods, LayerModules(mods, "linear", i),
                               bldConfig.weight_sparsity, bldConfig.linear_percent_on[i],
                               "SparseWeights", "Linear", "KWinners")

\* a network with a sparse convolution followed by a ReLU for percent_on 1.0
\* and a dense linear layer for weight sparsity 0 followed by k-winners
C11_Witness ==
  /\ network # None
  /\ Len(bldConfig.cnn_out_channels) >= 1
  /\ Len(bldConfig.linear_n) >= 1
  /\ bldConfig.cnn_weight_sparsity = 4
  /\ bldConfig.cnn_percent_on[1] = 10
  /\ bldConfig.weight_sparsity = 0
  /\ bldConfig.linear_percent_on[1] = 4
  /\ \E i \in 1..Len(network.modules) : network.modules[i].type = "SparseWeights2d"
  /\ \E i \in 1..Len(network.modules) : network.modules[i].type = "KWinners"
  /\ \E i \in 1..Len(network.modules) :
       /\ network.modules[i].name = <<"cnnSdr", 1, "_relu">>
       /\ network.modules[i].type = "ReLU"
  /\ \E i \in 1..Len(network.modules) :
       /\ network.modules[i].name = <<"linear", 1, "">>
       /\ network.modules[i].type = "Linear"

----------------------------------------------------------------------------
(* Properties of the loss functions *)

Predictions == lossIn.data_lists[1]

TrueTargets == lossIn.data_lists[2]

\* the loss of horizon k of module m, as function f takes it
HorizonLoss(f, m, k) ==
  IF f = "multiple_cross_entropy"
  THEN CrossEntropy(Predictions[m][k], Zeros(Predictions[m][k].shape), lossIn.reduction)
  ELSE IF f = "all_module_multiple_log_softmax"
  THEN NllLoss(Predictions[m][k], Zeros(Predictions[m][k].shape), lossIn.reduction)
  ELSE IF f = "module_specific_log_softmax_nll_loss"
  THEN NllLoss(Predictions[m][k], TrueTargets[m][k], lossIn.reduction)
  ELSE IF f = "true_gim_loss"
  THEN GimTerm(Predictions[m][k])
  ELSE CrossEntropy(Predictions[m][k], TrueTargets[m][k], lossIn.reduction)

RECURSIVE FoldAdd(_)
FoldAdd(ts) == IF ts = <<>> THEN Scalar(RatOfInt(0))
               ELSE AddT(FoldAdd(SubSeq(ts, 1, Len(ts) - 1)), ts[Len(ts)])

\* the sum and the average over the horizons of module m
ModuleSum(f, m) == FoldAdd([k \in 1..Len(Predictions[m]) |-> HorizonLoss(f, m, k)])

ModuleAverage(f, m) == DivT(ModuleSum(f, m), Len(Predictions[m]))

SelectedModule == IF lossIn.module < 0 THEN Len(Predictions) + lossIn.module + 1
                  ELSE lossIn.module + 1

ReturnedTensor(f) == lossOut.f = f /\ lossOut.value.kind = "tensor"

\* the vector holds, module by module, the scalars of contributions
IsVectorOf(value, contributions) ==
  /\ value.shape = <<Len(Predictions)>>
  /\ Len(contributions) = Len(Predictions)
  /\ \A m \in 1..Len(Predictions) :
       /\ contributions[m].kind = "tensor"
       /\ contributions[m].v = <<value.v[m]>>

\* C7 as claimed: each of the five functions that iterate over the horizons
\* divides the loss accumulated for a module by the number of its horizons.
C7_AllDivideByHorizons ==
  LET avg(f) == FoldAdd([m \in 1..Len(Predictions) |-> ModuleAverage(f, m)])
      avgAmm == [m \in 1..Len(Predictions) |-> ModuleAverage("all_module_multiple_log_softmax", m)]
      avgMsl == [m \in 1..Len(Predictions) |-> ModuleAverage("module_specific_log_softmax_nll_loss", m)]
  IN  /\ ReturnedTensor("multiple_cross_entropy") =>
           lossOut.value = avg("multiple_cross_entropy")
      /\ ReturnedTensor("true_gim_loss") => lossOut.value = avg("true_gim_loss")
      /\ ReturnedTensor("module_specific_cross_entropy") =>
           lossOut.value = ModuleAverage("module_specific_cross_entropy", SelectedModule)
      /\ ReturnedTensor("all_module_multiple_log_softmax") =>
           IsVectorOf(lossOut.value, avgAmm)
      /\ ReturnedTensor("module_specific_log_softmax_nll_loss") =>
           IsVectorOf(lossOut.value, avgMsl)

\* C7, amended: all_module_multiple_log_softmax and
\* module_specific_log_softmax_nll_loss divide the loss accumulated for a
\* module by the number of its horizons; multiple_cross_entropy,
\* true_gim_loss and module_specific_cross_entropy add the losses of the
\* horizons and divide by nothing.
C7_OnlyPerModuleVariantsDivide ==
  LET sum(f) == FoldAdd([m \in 1..Len(Predictions) |-> ModuleSum(f, m)])
      avgAmm == [m \in 1..Len(Predictions) |-> ModuleAverage("all_module_multiple_log_softmax", m)]
      avgMsl == [m \in 1..Len(Predictions) |-> ModuleAverage("module_specific_log_softmax_nll_loss", m)]
  IN  /\ ReturnedTensor("multiple_cross_entropy") =>
           lossOut.value = sum("multiple_cross_entropy")
      /\ ReturnedTensor("true_gim_loss") => lossOut.value = sum("true_gim_loss")
      /\ ReturnedTensor("module_specific_cross_entropy") =>
           lossOut.value = ModuleSum("module_specific_cross_entropy", SelectedModule)
      /\ ReturnedTensor("all_module_multiple_log_softmax") =>
           IsVectorOf(lossOut.value, avgAmm)
      /\ ReturnedTensor("module_specific_log_softmax_nll_loss") =>
           IsVectorOf(lossOut.value, avgMsl)

C7_Witness ==
  /\ ReturnedTensor("multiple_cross_entropy")
  /\ lossIn.reduction = "mean"
  /\ Len(Predictions) = 2
  /\ Len(Predictions[1]) = 2
  /\ lossOut.value = FoldAdd(<<ModuleSum("multiple_cross_entropy", 1),
                               ModuleSum("multiple_cross_entropy", 2)>>)
  /\ ModuleSum("multiple_cross_entropy", 1) # ModuleAverage("multiple_cross_entropy", 1)

\* C8: for the same data_lists, targets and reduction, the sum over the
\* modules of what module_specific_log_softmax_nll_loss returns is what
\* multiple_log_softmax_nll_loss returns, whatever the reduction.
C8_SumOfModuleSpecificEqualsMultiple ==
  LET perModule == module_specific_log_softmax_nll_loss(lossIn.data_lists, lossIn.targets,
                                                        lossIn.reduction)
  IN  (lossOut.f = "multiple_log_softmax_nll_loss" /\ perModule.kind = "tensor") =>
        lossOut.value = SumT(perModule)

\* what C8 says, for the reduction "mean"
SumOfModuleSpecificEqualsMultipleForMean ==
  lossIn.reduction = "mean" => C8_SumOfModuleSpecificEqualsMultiple

AggregateLosses ==
  {"multiple_cross_entropy", "multiple_log_softmax_nll_loss", "true_gim_loss",
   "module_specific_cross_entropy"}

\* what a per-module function returns for each module alone
AloneAmm ==
  [m \in 1..Len(Predictions) |->
     GetItem(all_module_multiple_log_softmax(<<Predictions[m]>>, lossIn.targets,
                                             lossIn.reduction), 1)]

AloneMsl ==
  [m \in 1..Len(Predictions) |->
     GetItem(module_specific_log_softmax_nll_loss(<<<<Predictions[m]>>, <<TrueTargets[m]>>>>,
                                                  lossIn.targets, lossIn.reduction), 1)]

ShapesAsDocumented ==
  /\ lossOut.f \in AggregateLosses =>
       /\ lossOut.value.kind = "tensor"
       /\ lossOut.value.shape = <<>>
  /\ lossOut.f = "all_module_multiple_log_softmax" =>
       /\ lossOut.value.kind = "tensor"
       /\ IsVectorOf(lossOut.value, AloneAmm)
  /\ lossOut.f = "module_specific_log_softmax_nll_loss" =>
       /\ lossOut.value.kind = "tensor"
       /\ IsVectorOf(lossOut.value, AloneMsl)

\* C9 as claimed: for every reduction the aggregate functions return a
\* scalar and the per-module functions a vector of one entry per module,
\* entry i computed from module i alone.
C9_ShapesForEveryReduction == ShapesAsDocumented

\* C9, amended: for the reductions "mean" and "sum" the aggregate functions
\* return a scalar and the per-module functions a vector of one entry per
\* module, entry i computed from module i alone.
C9_ShapesForMeanAndSum ==
  lossIn.reduction \in {"mean", "sum"} => ShapesAsDocumented

C9_Witness ==
  /\ lossOut.f = "all_module_multiple_log_softmax"
  /\ lossIn.reduction = "sum"
  /\ Len(Predictions) = 2
  /\ Len(Predictions[2]) = 2
  /\ Len(Predictions[1][1].elems) = 2
  /\ lossOut.value.shape = <<2>>
  /\ lossOut.value.v[1] # lossOut.value.v[2]

\* what function f returns for the arguments in
LossCall(f, in) ==
  IF f = "multiple_cross_entropy"
  THEN multiple_cross_entropy(in.data_lists[1], in.targets, in.reduction)
  ELSE IF f = "all_module_multiple_log_softmax"
  THEN all_module_multiple_log_softmax(in.data_lists[1], in.targets, in.reduction)
  ELSE IF f = "multiple_log_softmax_nll_loss"
  THEN multiple_log_softmax_nll_loss(in.data_lists, in.targets, in.reduction)
  ELSE IF f = "module_specific_log_softmax_nll_loss"
  THEN module_specific_log_softmax_nll_loss(in.data_lists, in.targets, in.reduction)
  ELSE IF f = "true_gim_loss"
  THEN true_gim_loss(in.data_lists, in.targets, in.reduction)
  ELSE module_specific_cross_entropy(in.data_lists, in.targets, in.reduction, in.module)

\* the values of the targets argument
TargetsArguments == {0, 1}

\* the arguments in with the targets argument t
WithTargets(in, t) == [in EXCEPT !.targets = t]

\* the arguments in with every target tensor of data_lists all-zero
WithZeroTargetTensors(in) ==
  [in EXCEPT !.data_lists[2] =
     [m \in 1..Len(in.data_lists[2]) |->
        [k \in 1..Len(in.data_lists[2][m]) |-> Zeros(in.data_lists[2][m][k].shape)]]]

\* a target tensor of data_lists names a class other than 0
SomeTargetNonZero ==
  \E m \in 1..Len(TrueTargets) : \E k \in 1..Len(TrueTargets[m]) :
    \E e \in 1..Len(TrueTargets[m][k].v) : TrueTargets[m][k].v[e] # 0

\* what f returned is what it returns for all-zero target tensors and any
\* targets argument
IgnoresAllTargets(f) ==
  lossOut.f = f =>
    \A t \in TargetsArguments :
      lossOut.value = LossCall(f, WithTargets(WithZeroTargetTensors(lossIn), t))

\* what f returned is what it returns for any targets argument
IgnoresTargetsArgument(f) ==
  lossOut.f = f =>
    \A t \in TargetsArguments : lossOut.value = LossCall(f, WithTargets(lossIn, t))

\* C12 as claimed: every function of the family takes class 0 as the
\* positive sample through all-zero targets of its own, so that what it
\* returns depends neither on the targets argument nor on the target tensors
\* of data_lists.
C12_EveryLossIgnoresTargets ==
  \A f \in LossFunctions : IgnoresAllTargets(f)

\* C12, amended: multiple_cross_entropy, all_module_multiple_log_softmax and
\* true_gim_loss take class 0 as the positive sample, and what they return
\* depends neither on the targets argument nor on the target tensors;
\* module_specific_log_softmax_nll_loss, multiple_log_softmax_nll_loss and
\* module_specific_cross_entropy do not depend on the targets argument (they
\* take the class of each position from the target tensors of data_lists).
C12_OwnZeroTargetsInThreeFunctions ==
  /\ \A f \in {"multiple_cross_entropy", "all_module_multiple_log_softmax", "true_gim_loss"} :
       IgnoresAllTargets(f)
  /\ \A f \in LossFunctions : IgnoresTargetsArgument(f)

\* multiple_cross_entropy has returned the sum for class 0 although the
\* targets argument is 1 and the target tensors name class 1 at a position
\* where that class has another loss
C12_Witness ==
  /\ ReturnedTensor("multiple_cross_entropy")
  /\ lossIn.targets = 1
  /\ SomeTargetNonZero
  /\ lossOut.value = FoldAdd([m \in 1..Len(Predictions) |->
                                ModuleSum("multiple_cross_entropy", m)])
  /\ lossOut.value # FoldAdd([m \in 1..Len(Predictions) |->
                                ModuleSum("module_specific_cross_entropy", m)])

\* the arguments in with the reduction r
WithReduction(in, r) == [in EXCEPT !.reduction = r]

\* the average over the horizons of module m of F.nll_loss(..., "mean")
MeanModuleAverage(m) ==
  DivT(FoldAdd([k \in 1..Len(Predictions[m]) |->
                  NllLoss(Predictions[m][k], TrueTargets[m][k], "mean")]),
       Len(Predictions[m]))

\* what f returned is what it returns for any reduction
IgnoresReduction(f) ==
  lossOut.f = f =>
    \A r \in Reductions : lossOut.value = LossCall(f, WithReduction(lossIn, r))

\* C13 as claimed: module_specific_log_softmax_nll_loss does not use its
\* reduction argument: for the same data_lists it returns the same vector
\* for every reduction, the average over the horizons of the "mean" loss of
\* each module.
C13_ModuleSpecificIgnoresReduction ==
  /\ IgnoresReduction("module_specific_log_softmax_nll_loss")
  /\ lossOut.f = "module_specific_log_softmax_nll_loss" =>
       /\ lossOut.value.kind = "tensor"
       /\ IsVectorOf(lossOut.value, [m \in 1..Len(Predictions) |-> MeanModuleAverage(m)])

\* C13, amended: it is multiple_log_softmax_nll_loss that does not use its
\* reduction argument: for the same data_lists it returns the same scalar
\* for every reduction, the sum over the modules of the average over the
\* horizons of the "mean" loss; module_specific_log_softmax_nll_loss hands
\* its reduction to F.nll_loss, and for "mean" and "sum" returns for each
\* module the average over the horizons of the loss of that reduction.
C13_MultipleIgnoresReduction ==
  /\ IgnoresReduction("multiple_log_softmax_nll_loss")
  /\ lossOut.f = "multiple_log_softmax_nll_loss" =>
       lossOut.value = FoldAdd([m \in 1..Len(Predictions) |-> MeanModuleAverage(m)])
  /\ (lossOut.f = "module_specific_log_softmax_nll_loss"
       /\ lossIn.reduction \in {"mean", "sum"}) =>
       /\ lossOut.value.kind = "tensor"
       /\ IsVectorOf(lossOut.value,
                     [m \in 1..Len(Predictions) |->
                        ModuleAverage("module_specific_log_softmax_nll_loss", m)])

\* multiple_log_softmax_nll_loss has been called with reduction "sum" on
\* batches of two positions and has returned the sum of the "mean" losses,
\* which is not the sum of what module_specific_log_softmax_nll_loss returns
\* for "sum"
C13_Witness ==
  /\ ReturnedTensor("multiple_log_softmax_nll_loss")
  /\ lossIn.reduction = "sum"
  /\ Len(Predictions[1][1].elems) = 2
  /\ lossOut.value = FoldAdd([m \in 1..Len(Predictions) |-> MeanModuleAverage(m)])
  /\ lossOut.value # SumT(module_specific_log_softmax_nll_loss(lossIn.data_lists,
                                                               lossIn.targets, "sum"))

\* what C10 says, for the square inputs
DimensionsChainForSquareInputs ==
  (bldConfig # None /\ bldConfig.cnn_input_shape[2] = bldConfig.cnn_input_shape[3]) =>
    C10_DimensionsChain

====
